---- MODULE Spec2Model ----
(***************************************************************************)
(* Model of scripts/convert_model_to_long.py: create_long_model (position  *)
(* embedding extension and attention-module replacement), the in-place     *)
(* weight updates of training, and copy_proj_layers.                       *)
(*                                                                         *)
(* Tensors of the position-embedding table are sequences of row contents   *)
(* (Python row k is data[k+1]); a row's content is abstracted to a number. *)
(* Projection modules (nn.Linear) live in a heap: a reference is an index  *)
(* into `heap`, the cell holds the module's weights abstracted to a number.*)
(***************************************************************************)
EXTENDS Integers, Sequences, FiniteSets, TLC

\* ---- bounds of the model ----
MaxOldRows == 5      \* largest row count of the pretrained position table
MaxPos == 8          \* largest max_pos argument
NumLayers == 2       \* config.num_hidden_layers of the pretrained model
MaxWeight == 2       \* projection weights take the values 0..MaxWeight
MaxTrainSteps == 1   \* in-place weight updates explored
MaxSyncs == 2        \* copy_proj_layers calls explored

\* ---- program constants ----
R == 2               \* reserved leading positions (lines 95, 101, 102, 104)
EmbedDim == 768      \* embed_size of the roberta-base checkpoint

Windows == {2, 4}    \* attention_window arguments explored
Uninit == {0, 1}     \* contents an uninitialised row may hold (new_empty)
Slots == {"query", "key", "value"}

VARIABLES
  pc,               \* position of the script
  error,            \* exception that ended create_long_model, or "none"
  checkpoint,       \* the pretrained 'roberta-base' checkpoint (never written)
  max_pos,          \* create_long_model's max_pos (argument, then += 2)
  attention_window, \* create_long_model's attention_window argument
  tokenizer,        \* tokenizer.model_max_length, tokenizer.init_kwargs
  config,           \* model.config
  weight,           \* model.roberta.embeddings.position_embeddings.weight
  current_max_pos,  \* local of create_long_model
  embed_size,       \* local of create_long_model
  new_pos_embed,    \* local of create_long_model
  k,                \* local of create_long_model
  step,             \* local of create_long_model
  i,                \* index of the layer loop of create_long_model
  layers,           \* model.roberta.encoder.layer[*].attention.self
  heap,             \* storage of the projection modules
  steps,            \* number of training updates so far
  syncs,            \* number of copy_proj_layers calls so far
  consecSyncs       \* copy_proj_layers calls since the last weight update

vars == <<pc, error, checkpoint, max_pos, attention_window, tokenizer, config,
          weight, current_max_pos, embed_size, new_pos_embed, k, step, i,
          layers, heap, steps, syncs, consecSyncs>>

Min(a, b) == IF a < b THEN a ELSE b

Max(a, b) == IF a > b THEN a ELSE b

\* ---- the pretrained checkpoint ----

\* Content of row j (0-based) of the pretrained position table.
PretrainedRow(j) == j + 1

\* Weights of projection `slot` of layer l (0-based) in the checkpoint.
SlotIndex(slot) == CASE slot = "query" -> 0 [] slot = "key" -> 1 [] slot = "value" -> 2

PretrainedWeight(l, slot) == (l + SlotIndex(slot)) % (MaxWeight + 1)

\* Heap reference of projection `slot` of layer l after from_pretrained.
PretrainedRef(l, slot) == 3 * l + SlotIndex(slot) + 1

EmptyTensor == [cols |-> 0, data |-> << >>]

Checkpoint(rows) ==
  [weight |-> [cols |-> EmbedDim, data |-> [j \in 1..rows |-> PretrainedRow(j - 1)]],
   config |-> [max_position_embeddings |-> rows,
               num_hidden_layers |-> NumLayers,
               attention_window |-> << >>],
   heap   |-> [a \in 1..(3 * NumLayers) |->
                 PretrainedWeight((a - 1) \div 3,
                    CASE (a - 1) % 3 = 0 -> "query"
                      [] (a - 1) % 3 = 1 -> "key"
                      [] (a - 1) % 3 = 2 -> "value")],
   layers |-> [l \in 1..NumLayers |->
                 [kind |-> "BertSelfAttention",
                  layer_id |-> -1, window |-> 0,
                  query |-> PretrainedRef(l - 1, "query"),
                  key |-> PretrainedRef(l - 1, "key"),
                  value |-> PretrainedRef(l - 1, "value"),
                  query_global |-> 0, key_global |-> 0, value_global |-> 0]]]

Shape(t) == <<Len(t.data), t.cols>>

Init ==
  /\ pc = "start"
  /\ error = "none"
  /\ \E rows \in (R + 1)..MaxOldRows : checkpoint = Checkpoint(rows)
  /\ max_pos \in 1..MaxPos
  /\ attention_window \in Windows
  /\ tokenizer = [model_max_length |-> 0, init_kwargs |-> 0]
  /\ config = [max_position_embeddings |-> 0, num_hidden_layers |-> 0,
               attention_window |-> << >>]
  /\ weight = EmptyTensor
  /\ current_max_pos = 0
  /\ embed_size = 0
  /\ new_pos_embed = EmptyTensor
  /\ k = 0
  /\ step = 0
  /\ i = 0
  /\ layers = << >>
  /\ heap = << >>
  /\ steps = 0
  /\ syncs = 0
  /\ consecSyncs = 0

\* ---- create_long_model, lines 87-89 ----
Load ==
  /\ pc = "start"
  /\ pc' = "extend"
  /\ weight' = checkpoint.weight
  /\ config' = checkpoint.config
  /\ layers' = checkpoint.layers
  /\ heap' = checkpoint.heap
  /\ tokenizer' = [model_max_length |-> max_pos, init_kwargs |-> max_pos]
  /\ UNCHANGED <<error, checkpoint, max_pos, attention_window, current_max_pos,
                 embed_size, new_pos_embed, k, step, i, steps, syncs, consecSyncs>>

\* ---- create_long_model, lines 92-96 ----
ExtendConfig ==
  /\ pc = "extend"
  /\ pc' = "assert"
  /\ tokenizer' = [model_max_length |-> max_pos, init_kwargs |-> max_pos]
  /\ current_max_pos' = Shape(weight)[1]
  /\ embed_size' = Shape(weight)[2]
  /\ max_pos' = max_pos + R
  /\ config' = [config EXCEPT !.max_position_embeddings = max_pos + R]
  /\ UNCHANGED <<error, checkpoint, attention_window, weight, new_pos_embed, k,
                 step, i, layers, heap, steps, syncs, consecSyncs>>

\* ---- create_long_model, line 97 ----
\* Mutant of AssertHolds: the comparison is not strict.
AssertHoldsNotStrict(mp, cur) == mp >= cur

AssertHolds(mp, cur) == mp > cur

AssertLonger ==
  /\ pc = "assert"
  /\ IF AssertHolds(max_pos, current_max_pos)
       THEN pc' = "alloc" /\ error' = error
       ELSE pc' = "failed" /\ error' = "AssertionError"
  /\ UNCHANGED <<checkpoint, max_pos, attention_window, tokenizer, config, weight,
                 current_max_pos, embed_size, new_pos_embed, k, step, i, layers,
                 heap, steps, syncs, consecSyncs>>

\* ---- create_long_model, lines 99-102 ----
\* new_empty(max_pos, embed_size): the rows hold whatever the memory held.
NewEmpty(rows, cols) == {[cols |-> cols, data |-> d] : d \in [1..rows -> Uninit]}

Allocate ==
  /\ pc = "alloc"
  /\ pc' = "tile"
  /\ new_pos_embed' \in NewEmpty(max_pos, embed_size)
  /\ k' = R
  /\ step' = current_max_pos - R
  /\ UNCHANGED <<error, checkpoint, max_pos, attention_window, tokenizer, config,
                 weight, current_max_pos, embed_size, i, layers, heap, steps,
                 syncs, consecSyncs>>

\* ---- create_long_model, lines 103-105 ----
\* weight[lo:]: the rows from Python index lo on.
RowsFrom(t, lo) == SubSeq(t.data, Min(lo, Len(t.data)) + 1, Len(t.data))

\* Python indices [lo, hi) of a tensor of n rows, as the slice clips them.
SliceLo(n, lo) == Min(lo, n)

SliceHi(n, lo, hi) == Max(Min(hi, n), SliceLo(n, lo))

\* dst[lo:hi] = src. The slice is a view of SliceHi - SliceLo rows; the copy
\* needs src to have as many rows, or one row (broadcast), else it raises
\* RuntimeError and dst is as before.
SliceAssign(dst, lo, hi, src) ==
  LET n    == Len(dst.data)
      a    == SliceLo(n, lo)
      b    == SliceHi(n, lo, hi)
      m    == b - a
      fits == Len(src) = m \/ Len(src) = 1
  IN  [ok   |-> fits,
       data |-> IF fits
                  THEN [j \in 1..n |->
                          IF j > a /\ j <= b
                            THEN (IF Len(src) = m THEN src[j - a] ELSE src[1])
                            ELSE dst.data[j]]
                  ELSE dst.data]

LoopCond(kk, mp) == kk < mp - 1

TileStep ==
  /\ pc = "tile"
  /\ LoopCond(k, max_pos)
  /\ LET r == SliceAssign(new_pos_embed, k, k + step, RowsFrom(weight, R))
     IN  IF r.ok
           THEN /\ new_pos_embed' = [new_pos_embed EXCEPT !.data = r.data]
                /\ k' = k + step
                /\ pc' = pc
                /\ error' = error
           ELSE /\ pc' = "failed"
                /\ error' = "RuntimeError"
                /\ UNCHANGED <<new_pos_embed, k>>
  /\ UNCHANGED <<checkpoint, max_pos, attention_window, tokenizer, config, weight,
                 current_max_pos, embed_size, step, i, layers, heap, steps, syncs,
                 consecSyncs>>

\* ---- create_long_model, line 106 ----
Install ==
  /\ pc = "tile"
  /\ ~LoopCond(k, max_pos)
  /\ pc' = "window"
  /\ weight' = new_pos_embed
  /\ UNCHANGED <<error, checkpoint, max_pos, attention_window, tokenizer, config,
                 current_max_pos, embed_size, new_pos_embed, k, step, i, layers,
                 heap, steps, syncs, consecSyncs>>

\* ---- create_long_model, line 110 ----
WindowList(w, n) == [j \in 1..n |-> w]

SetWindow ==
  /\ pc = "window"
  /\ pc' = "replace"
  /\ config' = [config EXCEPT
                  !.attention_window = WindowList(attention_window, config.num_hidden_layers)]
  /\ i' = 0
  /\ UNCHANGED <<error, checkpoint, max_pos, attention_window, tokenizer, weight,
                 current_max_pos, embed_size, new_pos_embed, k, step, layers, heap,
                 steps, syncs, consecSyncs>>

\* ---- copy.deepcopy of a projection module ----
\* The copy is a new object: a new heap cell holding the same weights.
DeepCopyHeap(h, a) == Append(h, h[a])

\* Mutant of DeepCopyRef: the module is assigned without copy.deepcopy.
AliasRef(h, a) == a

DeepCopyRef(h, a) == Len(h) + 1

\* ---- create_long_model, lines 111-121 ----
\* LongformerSelfAttention(config, layer_id): the module keeps layer_id and the
\* window config.attention_window[layer_id]; its own freshly built projections
\* are all reassigned by the caller before anything reads them.
LongformerSelfAttention(cfg, layer_id) ==
  [kind |-> "LongformerSelfAttention",
   layer_id |-> layer_id,
   window |-> cfg.attention_window[layer_id + 1],
   query |-> 0, key |-> 0, value |-> 0,
   query_global |-> 0, key_global |-> 0, value_global |-> 0]

\* Mutant of ConstructFor: every module is built with layer_id = 0.
ConstructFirst(cfg, idx) == LongformerSelfAttention(cfg, 0)

\* line 112
ConstructFor(cfg, idx) == LongformerSelfAttention(cfg, idx)

\* One iteration of the loop on the model m = [heap, layers], layer idx (0-based).
ReplaceAttention(m, cfg, idx) ==
  LET old == m.layers[idx + 1]
      n0  == ConstructFor(cfg, idx)
      n1  == [n0 EXCEPT !.query = old.query, !.key = old.key, !.value = old.value]
      h1  == DeepCopyHeap(m.heap, old.query)
      n2  == [n1 EXCEPT !.query_global = DeepCopyRef(m.heap, old.query)]
      h2  == DeepCopyHeap(h1, old.key)
      n3  == [n2 EXCEPT !.key_global = DeepCopyRef(h1, old.key)]
      h3  == DeepCopyHeap(h2, old.value)
      n4  == [n3 EXCEPT !.value_global = DeepCopyRef(h2, old.value)]
  IN  [heap |-> h3, layers |-> [m.layers EXCEPT ![idx + 1] = n4]]

ReplaceLayer ==
  /\ pc = "replace"
  /\ i < Len(layers)
  /\ LET m == ReplaceAttention([heap |-> heap, layers |-> layers], config, i)
     IN  heap' = m.heap /\ layers' = m.layers
  /\ i' = i + 1
  /\ UNCHANGED <<pc, error, checkpoint, max_pos, attention_window, tokenizer,
                 config, weight, current_max_pos, embed_size, new_pos_embed, k,
                 step, steps, syncs, consecSyncs>>

\* ---- create_long_model, lines 123-126 ----
SaveAndReturn ==
  /\ pc = "replace"
  /\ ~(i < Len(layers))
  /\ pc' = "returned"
  /\ UNCHANGED <<error, checkpoint, max_pos, attention_window, tokenizer, config,
                 weight, current_max_pos, embed_size, new_pos_embed, k, step, i,
                 layers, heap, steps, syncs, consecSyncs>>

\* ---- pretrain_and_evaluate, line 171 ----
\* Training updates the weights of a local projection in place; it does not
\* train the global projections (lines 129, 290).
Update(w) == (w + 1) % (MaxWeight + 1)

TrainStep ==
  /\ pc = "returned"
  /\ steps < MaxTrainSteps
  /\ \E l \in 1..Len(layers), slot \in Slots :
       heap' = [heap EXCEPT ![layers[l][slot]] = Update(@)]
  /\ steps' = steps + 1
  /\ consecSyncs' = 0
  /\ UNCHANGED <<pc, error, checkpoint, max_pos, attention_window, tokenizer,
                 config, weight, current_max_pos, embed_size, new_pos_embed, k,
                 step, i, layers, syncs>>

\* ---- copy_proj_layers, lines 135-140 ----
\* Mutant of CopyProj: the copies go from the global projections to the local.
CopyProjReversed(m, idx) ==
  LET a   == m.layers[idx + 1]
      h1  == DeepCopyHeap(m.heap, a.query_global)
      a1  == [a EXCEPT !.query = DeepCopyRef(m.heap, a.query_global)]
      h2  == DeepCopyHeap(h1, a1.key_global)
      a2  == [a1 EXCEPT !.key = DeepCopyRef(h1, a1.key_global)]
      h3  == DeepCopyHeap(h2, a2.value_global)
      a3  == [a2 EXCEPT !.value = DeepCopyRef(h2, a2.value_global)]
  IN  [heap |-> h3, layers |-> [m.layers EXCEPT ![idx + 1] = a3]]

\* Mutant of CopyProj: query_global is copied from key_global.
CopyProjChained(m, idx) ==
  LET a   == m.layers[idx + 1]
      h1  == DeepCopyHeap(m.heap, a.key_global)
      a1  == [a EXCEPT !.query_global = DeepCopyRef(m.heap, a.key_global)]
      h2  == DeepCopyHeap(h1, a1.key)
      a2  == [a1 EXCEPT !.key_global = DeepCopyRef(h1, a1.key)]
      h3  == DeepCopyHeap(h2, a2.value)
      a3  == [a2 EXCEPT !.value_global = DeepCopyRef(h2, a2.value)]
  IN  [heap |-> h3, layers |-> [m.layers EXCEPT ![idx + 1] = a3]]

\* One iteration of the loop on the model m = [heap, layers], layer idx (0-based).
CopyProj(m, idx) ==
  LET a   == m.layers[idx + 1]
      h1  == DeepCopyHeap(m.heap, a.query)
      a1  == [a EXCEPT !.query_global = DeepCopyRef(m.heap, a.query)]
      h2  == DeepCopyHeap(h1, a1.key)
      a2  == [a1 EXCEPT !.key_global = DeepCopyRef(h1, a1.key)]
      h3  == DeepCopyHeap(h2, a2.value)
      a3  == [a2 EXCEPT !.value_global = DeepCopyRef(h2, a2.value)]
  IN  [heap |-> h3, layers |-> [m.layers EXCEPT ![idx + 1] = a3]]

\* The loop over the layers idx, idx + 1, ...
RECURSIVE CopyProjFrom(_, _)
CopyProjFrom(m, idx) ==
  IF idx < Len(m.layers) THEN CopyProjFrom(CopyProj(m, idx), idx + 1) ELSE m

CopyProjLayers ==
  /\ pc = "returned"
  /\ syncs < MaxSyncs
  /\ LET m == CopyProjFrom([heap |-> heap, layers |-> layers], 0)
     IN  heap' = m.heap /\ layers' = m.layers
  /\ syncs' = syncs + 1
  /\ consecSyncs' = consecSyncs + 1
  /\ UNCHANGED <<pc, error, checkpoint, max_pos, attention_window, tokenizer,
                 config, weight, current_max_pos, embed_size, new_pos_embed, k,
                 step, i, steps>>

Next ==
  \/ Load
  \/ ExtendConfig
  \/ AssertLonger
  \/ Allocate
  \/ TileStep
  \/ Install
  \/ SetWindow
  \/ ReplaceLayer
  \/ SaveAndReturn
  \/ TrainStep
  \/ CopyProjLayers

Spec == Init /\ [][Next]_vars

\* ---- vocabulary of the properties ----

\* Row count of the position table before the call.
P_old == Len(checkpoint.weight.data)

\* The max_pos argument of the call (line 95 adds R to the variable).
P_new == IF pc \in {"start", "extend"} THEN max_pos ELSE max_pos - R

\* Row kk (0-based) of a tensor.
Row(t, kk) == t.data[kk + 1]

\* Line 106 has run: the model holds the new table.
Installed == pc \in {"window", "replace", "returned"}

\* Line 97 has been decided.
PastAssert == pc \notin {"start", "extend", "assert"}

\* The layer loop of lines 111-121 has ended.
AfterLoop == (pc = "replace" /\ i = Len(layers)) \/ pc = "returned"

GlobalOf(slot) ==
  CASE slot = "query" -> "query_global"
    [] slot = "key" -> "key_global"
    [] slot = "value" -> "value_global"

LayerIds == 1..Len(layers)

IsNew(l) == layers[l].kind = "LongformerSelfAttention"

LocalRefs == {layers[l][slot] : l \in LayerIds, slot \in Slots}

GlobalRefs == {layers[l][GlobalOf(slot)] : l \in LayerIds, slot \in Slots}

\* Weights the old module of layer l held in projection `slot`.
OldWeight(l, slot) == checkpoint.heap[checkpoint.layers[l][slot]]

\* C1: for P_new > P_old the installed table has shape (P_new + R, D) and
\* every row k in R..P_new+R-1 equals original row R + ((k - R) mod (P_old - R)).
C1_TableTiled ==
  (Installed /\ P_new > P_old) =>
    /\ Shape(weight) = <<P_new + R, checkpoint.weight.cols>>
    /\ \A kk \in R..(P_new + R - 1) :
         Row(weight, kk) = Row(checkpoint.weight, R + ((kk - R) % (P_old - R)))

\* C2: once the table is extended, its rows [0, R) equal rows [0, R) of the
\* original table.
C2_ReservedRowsKept ==
  Installed => \A kk \in 0..(R - 1) : Row(weight, kk) = Row(checkpoint.weight, kk)

\* C3 as stated: for P_new <= P_old (P_old the row count) the call fails and
\* no extended or truncated table is produced.
C3_RejectsNotGreater == (P_new <= P_old) => ~Installed

\* C3 as amended: for P_new + R <= P_old the call fails at line 97 with an
\* AssertionError and the model keeps its original table.
C3_RejectsNotLonger ==
  (P_new + R <= P_old /\ PastAssert) =>
    /\ pc = "failed"
    /\ error = "AssertionError"
    /\ weight = checkpoint.weight

\* C3 witness: a call with P_new + R <= P_old has been rejected.
C3_Witness == pc = "failed" /\ error = "AssertionError" /\ P_new + R <= P_old

\* C4: when the call fails on its configuration check, the table, the
\* configuration and the tokenizer's maximum length hold their values from
\* before the call.
C4_FailsBeforeMutation ==
  (pc = "failed" /\ error = "AssertionError") =>
    /\ weight = checkpoint.weight
    /\ config = checkpoint.config
    /\ tokenizer = [model_max_length |-> P_new, init_kwargs |-> P_new]

\* C5: after the layer loop every layer's query/key/value are the old
\* module's (and equal them until trained), its global projections equal the
\* old query/key/value until copy_proj_layers runs, whatever training did to the
\* local ones, and no global projection shares storage with a local one.
C5_GlobalsIndependent ==
  AfterLoop =>
    /\ \A l \in LayerIds, slot \in Slots :
         /\ layers[l][slot] = checkpoint.layers[l][slot]
         /\ steps = 0 => heap[layers[l][slot]] = OldWeight(l, slot)
         /\ syncs = 0 => heap[layers[l][GlobalOf(slot)]] = OldWeight(l, slot)
    /\ LocalRefs \cap GlobalRefs = {}
    /\ Cardinality(GlobalRefs) = 3 * Len(layers)

\* C5 witness: training changed a local projection after conversion and the
\* matching global projection still holds the old weights.
C5_Witness ==
  /\ pc = "returned" /\ steps > 0 /\ syncs = 0
  /\ \E l \in LayerIds, slot \in Slots :
       /\ heap[layers[l][slot]] # OldWeight(l, slot)
       /\ heap[layers[l][GlobalOf(slot)]] = OldWeight(l, slot)

\* C6: a new module exists only once the window list (one entry per layer,
\* all equal to W) is set; the loop replaces the layers in order; layer i's
\* module has layer_id = i and the window of the i-th entry of the list (= W).
C6_LayerOrder ==
  /\ \A l \in LayerIds :
       IsNew(l) =>
         /\ Len(config.attention_window) = Len(layers)
         /\ \A j \in 1..Len(layers) : config.attention_window[j] = attention_window
         /\ layers[l].layer_id = l - 1
         /\ layers[l].window = config.attention_window[l]
  /\ pc = "replace" => \A l \in LayerIds : IsNew(l) <=> l <= i
  /\ AfterLoop => \A l \in LayerIds : IsNew(l)

\* C6 witness: the loop has replaced the last of at least two layers.
C6_Witness ==
  /\ AfterLoop /\ Len(layers) >= 2
  /\ layers[Len(layers)].layer_id = Len(layers) - 1
  /\ layers[Len(layers)].window = attention_window

\* A step of copy_proj_layers.
IsSync == syncs' = syncs + 1

\* C7: copy_proj_layers makes every layer's global projections fresh copies
\* equal to the layer's current local projections, and changes nothing else.
C7_SyncEffect ==
  [][IsSync =>
       /\ \A l \in LayerIds, slot \in Slots :
            /\ heap'[layers'[l][GlobalOf(slot)]] = heap[layers[l][slot]]
            /\ layers'[l][GlobalOf(slot)] \notin DOMAIN heap
            /\ layers'[l][slot] = layers[l][slot]
            /\ heap'[layers'[l][slot]] = heap[layers[l][slot]]
       /\ \A l \in LayerIds :
            /\ layers'[l].kind = layers[l].kind
            /\ layers'[l].layer_id = layers[l].layer_id
            /\ layers'[l].window = layers[l].window
       /\ Len(layers') = Len(layers)
       /\ Cardinality({layers'[l][GlobalOf(slot)] : l \in LayerIds, slot \in Slots})
            = 3 * Len(layers)
       /\ \A a \in DOMAIN heap : heap'[a] = heap[a]
       /\ UNCHANGED <<pc, error, checkpoint, max_pos, attention_window, tokenizer,
                      config, weight>>]_vars

\* C7 witness: copy_proj_layers has run on a model whose local weights
\* training had changed.
C7_Witness ==
  /\ consecSyncs = 1 /\ steps > 0
  /\ \E l \in LayerIds, slot \in Slots :
       /\ heap[layers[l][slot]] # OldWeight(l, slot)
       /\ heap[layers[l][GlobalOf(slot)]] = heap[layers[l][slot]]

\* What a caller can read of the model: the weights of every projection of
\* every layer, the modules' settings, the table, the configuration.
ModelView ==
  [proj     |-> [l \in LayerIds |->
                   [s \in Slots \cup {GlobalOf(t) : t \in Slots} |-> heap[layers[l][s]]]],
   settings |-> [l \in LayerIds |-> <<layers[l].kind, layers[l].layer_id, layers[l].window>>],
   weight   |-> weight,
   config   |-> config,
   tokenizer |-> tokenizer]

\* C8: a copy_proj_layers call that follows another with no weight update in
\* between leaves the model as the first call left it.
C8_SyncIdempotent == [][(IsSync /\ consecSyncs >= 1) => ModelView' = ModelView]_vars

\* C8 witness: copy_proj_layers ran twice in a row, after training.
C8_Witness == consecSyncs >= 2 /\ steps > 0

\* C9: an iteration of the tiling loop whose block would overrun the table
\* (k + step > P_new + R) clips the copy and does not fail.
C9_ClipsFinalBlock ==
  ~(pc = "failed" /\ error = "RuntimeError" /\ k + step > max_pos)

\* C10: at a failure of create_long_model the model is not converted: the
\* layers are not part old and part new, and the table and configuration are
\* not extended while the attention modules are old.
C10_NoPartialState ==
  pc = "failed" =>
    /\ ~(\E l1, l2 \in LayerIds : IsNew(l1) /\ ~IsNew(l2))
    /\ ~(/\ \A l \in LayerIds : ~IsNew(l)
         /\ \/ weight # checkpoint.weight
            \/ config.max_position_embeddings # checkpoint.config.max_position_embeddings)

====
